---- MODULE Spec2Model ----
(***************************************************************************)
(* Responsive layout engine of the dashboard app: src/src/utils/           *)
(* responsive.js (device classification, grid columns, percentage and      *)
(* font scaling, the Dimensions subscription), the ResponsiveGrid          *)
(* component and the DashboardScreen orientation effect.                   *)
(*                                                                         *)
(* JavaScript values are encoded as follows.                               *)
(*   - an optional number (a parameter defaulting to null, an undefined    *)
(*     prop) is a sequence: << >> is null/undefined, <<n>> is the number n *)
(*   - the result of numeric arithmetic that can be NaN is a record        *)
(*     [nan |-> BOOLEAN, v |-> Int]                                        *)
(*   - an argument that is a number or a string literal is a record        *)
(*     [t |-> "num", n |-> Int] or [t |-> "str", s |-> sequence of chars]  *)
(* Fractions are exact rationals (numerator, denominator); the float       *)
(* rounding error of the engine's products is not modelled.                *)
(***************************************************************************)
EXTENDS Integers, Sequences, FiniteSets, TLC

VARIABLES
    platformOS,     \* Platform.OS
    pixelRatio,     \* PixelRatio.get(), the device pixel density
    window,         \* Dimensions.get('window'): [width, height]
    pending,        \* native dimension-change events not yet delivered to JS
    listeners,      \* the Dimensions 'change' listeners, in registration order
    calls,          \* per owner, callback invocations during the last delivery
    spacing,        \* responsive.js module constant
    typography,     \* responsive.js module constant
    gridStyles,     \* ResponsiveGrid.js StyleSheet styles
    headerStyles,   \* DashboardHeader StyleSheet styles
    importWindow,   \* the window the modules were evaluated under (history)
    dash,           \* DashboardScreen instance
    grid,           \* ResponsiveGrid instance
    arg,            \* the width argument of the last direct query
    result,         \* the results of the last direct query
    render,         \* the row grouping of a ResponsiveGrid render in progress
    refresh         \* DashboardScreen: refreshing, dashboardData, refresh timers

vars == <<platformOS, pixelRatio, window, pending, listeners, calls, spacing,
          typography, gridStyles, headerStyles, importWindow, dash, grid,
          arg, result, render, refresh>>

(***************************************************************************)
(* Bounds of the model.                                                    *)
(***************************************************************************)
\* native change events that may be queued before JS handles them
MaxPending == 1

\* longest data list given to a ResponsiveGrid
MaxDataLen == 4

\* handleRefresh calls of one run
MaxRefreshes == 3

\* widths and heights of the direct queries: every breakpoint with its
\* neighbours, the reference width 640, the pixel counts 1080 and 2280 of a
\* Pixel 4 screen, the malformed 0 and -1
QueryDims == {-1, 0, 1, 320, 359, 360, 361, 399, 400, 401, 500, 640, 767, 768,
              769, 800, 1023, 1024, 1025, 1080, 2280}

\* the windows the platform reports to the components: a phone in portrait
\* and rotated, the phone resized by one pixel in split-screen, a tablet in
\* portrait and rotated
Viewports ==
    {[width |-> 360, height |-> 800], [width |-> 800, height |-> 360],
     [width |-> 361, height |-> 800],
     [width |-> 800, height |-> 1024], [width |-> 1024, height |-> 800]}

\* device pixel densities
PixelRatios == {1, 2}

\* numColumns props a caller passes: undefined, 0, a fixed count, a negative
\* number
NumColumnsProps == {<< >>, <<0>>, <<2>>, <<-1>>}

\* base font sizes passed to rf, as fractions n/d: whole sizes and 12.5
BaseSizes ==
    {[n |-> k, d |-> 1] : k \in {-3, 0, 1, 2, 12, 20, 28}} \cup {[n |-> 25, d |-> 2]}

\* percentages passed to wp and hp
Percents == {0, 1, 4, 25, 50, 100}

\* the screen of the device testing matrix, in physical pixels, and the
\* pixel ratio of that device (2.75) as a fraction
Pixel4Screen == [width |-> 1080, height |-> 2280]

Pixel4PixelRatio == [n |-> 11, d |-> 4]

\* width overrides passed to getDeviceType / getGridColumns / isTablet
Overrides == {<< >>} \cup {<<w>> : w \in {0, 320, 380, 640, 800, 1024}}

(***************************************************************************)
(* JavaScript value helpers.                                               *)
(***************************************************************************)
Null == << >>

NaN == [nan |-> TRUE, v |-> 0]

Num(n) == [nan |-> FALSE, v |-> n]

NumArg(n) == [t |-> "num", n |-> n]

\* a JavaScript number with a whole value, as a fraction n/d
Whole(k) == [n |-> k, d |-> 1]

StrArg(s) == [t |-> "str", s |-> s]

Digits == {"0", "1", "2", "3", "4", "5", "6", "7", "8", "9"}

DigitValue(c) ==
    CASE c = "0" -> 0 [] c = "1" -> 1 [] c = "2" -> 2 [] c = "3" -> 3
      [] c = "4" -> 4 [] c = "5" -> 5 [] c = "6" -> 6 [] c = "7" -> 7
      [] c = "8" -> 8 [] OTHER -> 9

RECURSIVE DecimalValue(_)
DecimalValue(s) ==
    IF s = << >> THEN 0
    ELSE 10 * DecimalValue(SubSeq(s, 1, Len(s) - 1)) + DigitValue(s[Len(s)])

\* the numeric conversion the * operator applies to its operand: a number is
\* itself, a string of decimal digits its value, the empty string 0, any
\* other string (such as '4%') NaN
ToNumber(x) ==
    IF x.t = "num" THEN Num(x.n)
    ELSE IF \A i \in 1..Len(x.s) : x.s[i] \in Digits THEN Num(DecimalValue(x.s))
    ELSE NaN

\* a || b on optional numbers: a when a is truthy (not null, undefined or 0)
Truthy(a) == a # Null /\ a[1] # 0

OrElseNullish(a, b) == IF a # Null THEN a[1] ELSE b

OrElse(a, b) == IF Truthy(a) THEN a[1] ELSE b

Min(a, b) == IF a < b THEN a ELSE b

\* Math.round(n / d) for d > 0: floor(n/d + 1/2), halves towards +infinity
MathRound(n, d) == (2 * n + d) \div (2 * d)

\* Math.round(PixelRatio.roundToNearestPixel(n / d)):
\* roundToNearestPixel(x) = Math.round(x * ratio) / ratio
RoundedPixel(n, d, ratio) == MathRound(MathRound(n * ratio, d), ratio)

(***************************************************************************)
(* src/src/utils/responsive.js                                             *)
(***************************************************************************)
LogicalWindowAsPhysical(screen, ratio) ==
    [width |-> screen.width, height |-> screen.height]

\* the window Dimensions reports for a screen of physical pixels: its size
\* in density-independent points, pixels / pixel ratio, kept to the whole
\* point below (which decides every comparison with a whole breakpoint)
LogicalWindow(screen, ratio) ==
    [width |-> (screen.width * ratio.d) \div ratio.n,
     height |-> (screen.height * ratio.d) \div ratio.n]

getCurrentDimensionsAtImport == importWindow

getCurrentDimensions == window

ReferenceWidth == 640

AndroidFontOffset == 2

breakpoints ==
    [small |-> 360, medium |-> 400, large |-> 500, tablet |-> 768,
     largeTablet |-> 1024]

wpAtParsePercent(percentage, dims, ratio) ==
    LET stripped ==
            IF percentage.t = "str" /\ percentage.s # << >>
               /\ percentage.s[Len(percentage.s)] = "%"
            THEN StrArg(SubSeq(percentage.s, 1, Len(percentage.s) - 1))
            ELSE percentage
        p == ToNumber(stripped)
    IN  IF p.nan THEN NaN ELSE Num(RoundedPixel(p.v * dims.width, 100, ratio))

\* wp as a function of the dimensions it reads
wpAt(percentage, dims, ratio) ==
    LET p == ToNumber(percentage)
    IN  IF p.nan THEN NaN ELSE Num(RoundedPixel(p.v * dims.width, 100, ratio))

wp(percentage) == wpAt(percentage, getCurrentDimensions, pixelRatio)

hpAtOfWidth(percentage, dims, ratio) ==
    LET p == ToNumber(percentage)
    IN  IF p.nan THEN NaN ELSE Num(RoundedPixel(p.v * dims.width, 100, ratio))

hpAt(percentage, dims, ratio) ==
    LET p == ToNumber(percentage)
    IN  IF p.nan THEN NaN ELSE Num(RoundedPixel(p.v * dims.height, 100, ratio))

hp(percentage) == hpAt(percentage, getCurrentDimensions, pixelRatio)

rfAtOffsetOnIos(size, dims, ratio, os) ==
    IF os = "ios"
    THEN RoundedPixel(size.n * dims.width, size.d * ReferenceWidth, ratio)
             - AndroidFontOffset
    ELSE RoundedPixel(size.n * dims.width, size.d * ReferenceWidth, ratio)

rfAtClamped(size, dims, ratio, os) ==
    LET newSize == RoundedPixel(size.n * dims.width, size.d * ReferenceWidth, ratio)
        scaled == IF os = "ios" THEN newSize ELSE newSize - AndroidFontOffset
    IN  IF scaled < 1 THEN 1 ELSE scaled

\* rf as a function of what it reads; size is the fraction n/d, so that
\* newSize = size * width / 640 = (n * width) / (d * 640)
rfAt(size, dims, ratio, os) ==
    IF os = "ios"
    THEN RoundedPixel(size.n * dims.width, size.d * ReferenceWidth, ratio)
    ELSE RoundedPixel(size.n * dims.width, size.d * ReferenceWidth, ratio)
             - AndroidFontOffset

rf(size) == rfAt(size, getCurrentDimensions, pixelRatio, platformOS)

spacingAt(dims, ratio) ==
    [xs |-> wpAt(StrArg(<<"1", "%">>), dims, ratio),
     sm |-> wpAt(StrArg(<<"2", "%">>), dims, ratio),
     md |-> wpAt(StrArg(<<"4", "%">>), dims, ratio),
     lg |-> wpAt(StrArg(<<"6", "%">>), dims, ratio),
     xl |-> wpAt(StrArg(<<"8", "%">>), dims, ratio)]

typographyAt(dims, ratio, os) ==
    [h1 |-> rfAt(Whole(28), dims, ratio, os),
     h2 |-> rfAt(Whole(24), dims, ratio, os),
     h3 |-> rfAt(Whole(20), dims, ratio, os),
     h4 |-> rfAt(Whole(18), dims, ratio, os),
     body |-> rfAt(Whole(16), dims, ratio, os),
     caption |-> rfAt(Whole(14), dims, ratio, os),
     small |-> rfAt(Whole(12), dims, ratio, os)]

\* the classification of getDeviceType: the phone/tablet split tests
\* minDimension, the tiers within each test currentWidth
ClassifyTabletTierByMin(currentWidth, minDimension) ==
    IF minDimension < breakpoints.tablet
    THEN IF currentWidth < breakpoints.small THEN "smallPhone"
         ELSE IF currentWidth < breakpoints.medium THEN "mediumPhone"
         ELSE "largePhone"
    ELSE IF minDimension < breakpoints.largeTablet THEN "tablet"
         ELSE "largeTablet"

ClassifyPhoneTierByMin(currentWidth, minDimension) ==
    IF minDimension < breakpoints.tablet
    THEN IF minDimension < breakpoints.small THEN "smallPhone"
         ELSE IF minDimension < breakpoints.medium THEN "mediumPhone"
         ELSE "largePhone"
    ELSE IF currentWidth < breakpoints.largeTablet THEN "tablet"
         ELSE "largeTablet"

ClassifySplitByWidth(currentWidth, minDimension) ==
    IF currentWidth < breakpoints.tablet
    THEN IF currentWidth < breakpoints.small THEN "smallPhone"
         ELSE IF currentWidth < breakpoints.medium THEN "mediumPhone"
         ELSE "largePhone"
    ELSE IF currentWidth < breakpoints.largeTablet THEN "tablet"
         ELSE "largeTablet"

ClassifyInclusive(currentWidth, minDimension) ==
    IF minDimension <= breakpoints.tablet
    THEN IF currentWidth <= breakpoints.small THEN "smallPhone"
         ELSE IF currentWidth <= breakpoints.medium THEN "mediumPhone"
         ELSE "largePhone"
    ELSE IF currentWidth <= breakpoints.largeTablet THEN "tablet"
         ELSE "largeTablet"

ClassifyWithLargeTier(currentWidth, minDimension) ==
    IF minDimension < breakpoints.tablet
    THEN IF currentWidth < breakpoints.small THEN "smallPhone"
         ELSE IF currentWidth < breakpoints.medium THEN "mediumPhone"
         ELSE IF currentWidth < breakpoints.large THEN "largePhone"
         ELSE "phablet"
    ELSE IF currentWidth < breakpoints.largeTablet THEN "tablet"
         ELSE "largeTablet"

ClassifyByDocumentedRanges(currentWidth, minDimension) ==
    IF currentWidth < breakpoints.small THEN "smallPhone"
    ELSE IF currentWidth < breakpoints.medium THEN "mediumPhone"
    ELSE IF currentWidth < breakpoints.large THEN "largePhone"
    ELSE IF currentWidth < breakpoints.tablet THEN "tablet"
    ELSE "largeTablet"

Classify(currentWidth, minDimension) ==
    IF minDimension < breakpoints.tablet
    THEN IF currentWidth < breakpoints.small THEN "smallPhone"
         ELSE IF currentWidth < breakpoints.medium THEN "mediumPhone"
         ELSE "largePhone"
    ELSE IF currentWidth < breakpoints.largeTablet THEN "tablet"
         ELSE "largeTablet"

getDeviceTypeAt(width, dims) ==
    LET screenWidth == dims.width
        screenHeight == dims.height
        currentWidth == OrElse(width, screenWidth)
        minDimension == Min(currentWidth, screenHeight)
    IN  Classify(currentWidth, minDimension)

getDeviceType(width) == getDeviceTypeAt(width, getCurrentDimensions)

LandscapeOrSquare(currentWidth, screenHeight) == currentWidth >= screenHeight

IsLandscape(currentWidth, screenHeight) == currentWidth > screenHeight

\* the branch the switch of getGridColumns takes
SwitchBranch(deviceType) ==
    CASE deviceType \in {"smallPhone", "mediumPhone", "largePhone"} -> "phone"
      [] deviceType = "tablet" -> "tablet"
      [] deviceType = "largeTablet" -> "largeTablet"
      [] OTHER -> "default"

ColumnsForTabletSwapped(deviceType, isLandscape) ==
    CASE SwitchBranch(deviceType) = "phone" -> IF isLandscape THEN 2 ELSE 1
      [] SwitchBranch(deviceType) = "tablet" -> IF isLandscape THEN 2 ELSE 4
      [] SwitchBranch(deviceType) = "largeTablet" -> IF isLandscape THEN 5 ELSE 3
      [] OTHER -> IF isLandscape THEN 2 ELSE 1

\* the switch of getGridColumns
ColumnsFor(deviceType, isLandscape) ==
    CASE SwitchBranch(deviceType) = "phone" -> IF isLandscape THEN 2 ELSE 1
      [] SwitchBranch(deviceType) = "tablet" -> IF isLandscape THEN 4 ELSE 2
      [] SwitchBranch(deviceType) = "largeTablet" -> IF isLandscape THEN 5 ELSE 3
      [] OTHER -> IF isLandscape THEN 2 ELSE 1

getGridColumnsAt(width, dims) ==
    LET screenWidth == dims.width
        screenHeight == dims.height
        currentWidth == OrElse(width, screenWidth)
        isLandscape == IsLandscape(currentWidth, screenHeight)
        deviceType == getDeviceTypeAt(<<currentWidth>>, dims)
    IN  ColumnsFor(deviceType, isLandscape)

getGridColumns(width) == getGridColumnsAt(width, getCurrentDimensions)

isTabletAt(width, dims) ==
    LET deviceType == getDeviceTypeAt(width, dims)
    IN  deviceType = "tablet" \/ deviceType = "largeTablet"

isTablet(width) == isTabletAt(width, getCurrentDimensions)

getAdaptivePaddingAt(dims, ratio) ==
    LET deviceType == getDeviceTypeAt(Null, dims)
    IN  CASE deviceType = "smallPhone" -> wpAt(StrArg(<<"4", "%">>), dims, ratio)
          [] deviceType = "mediumPhone" -> wpAt(StrArg(<<"4", "%">>), dims, ratio)
          [] deviceType = "largePhone" -> wpAt(StrArg(<<"6", "%">>), dims, ratio)
          [] deviceType = "tablet" -> wpAt(StrArg(<<"8", "%">>), dims, ratio)
          [] OTHER -> wpAt(StrArg(<<"1", "0", "%">>), dims, ratio)

getAdaptivePadding == getAdaptivePaddingAt(getCurrentDimensions, pixelRatio)

(***************************************************************************)
(* The Dimensions module of the platform: a registry of 'change'           *)
(* listeners.  A subscription handle is the registered listener itself.    *)
(***************************************************************************)
\* Dimensions.addEventListener('change', handler)
AddEventListener(ls, l) == Append(ls, l)

RECURSIVE Without(_, _)
Without(ls, l) ==
    IF ls = << >> THEN << >>
    ELSE IF Head(ls) = l THEN Tail(ls)
    ELSE <<Head(ls)>> \o Without(Tail(ls), l)

\* subscription?.remove(): nothing for an absent handle, and removing a
\* listener that is not registered leaves the registry as it is
RemoveSubscription(ls, sub) == IF sub = Null THEN ls ELSE Without(ls, sub[1])

Registered(owner) == \E i \in 1..Len(listeners) : listeners[i].owner = owner

NoCalls == [grid |-> 0, dash |-> 0, stale |-> 0]

(***************************************************************************)
(* src/unnamed/part_001: DashboardScreen                                   *)
(***************************************************************************)
DashUnmounted ==
    [mounted |-> FALSE, orientation |-> "portrait", sub |-> Null,
     effectRun |-> FALSE, orientationQuery |-> FALSE, oriented |-> FALSE]

\* the orientation the native orientation module (react-native-orientation-
\* locker, outside the repository) passes to the callback: taken to be the
\* orientation of the window, in the words the screen compares its state with
DeviceOrientation(dims) ==
    IF dims.width > dims.height THEN "landscape" ELSE "portrait"

\* the callback DashboardScreen passes to listenForOrientationChange
ToggleOrientation(st) ==
    IF st.dash.mounted
    THEN [st EXCEPT !.dash.orientation =
                        IF @ = "portrait" THEN "landscape" ELSE "portrait",
                    !.calls.dash = @ + 1]
    ELSE [st EXCEPT !.calls.stale = @ + 1]

CallbackTwice(st) == ToggleOrientation(ToggleOrientation(st))

\* the handler listenForOrientationChange registers:
\* () => { getCurrentDimensions(); callback(); }
OrientationChangeHandler(st) == ToggleOrientation(st)

(***************************************************************************)
(* src/src/components/ResponsiveGrid.js                                    *)
(***************************************************************************)
GridUnmounted ==
    [mounted |-> FALSE, numColumns |-> Null, columns |-> 0, screenWidth |-> 0,
     sub |-> Null, effectPending |-> FALSE]

updateLayoutWidthOnly(g, numColumns, dims) ==
    [g EXCEPT !.screenWidth = dims.width]

updateLayoutStaleWidth(g, numColumns, dims) ==
    IF ~Truthy(numColumns)
    THEN [g EXCEPT !.screenWidth = dims.width,
                   !.columns = getGridColumnsAt(<<g.screenWidth>>, dims)]
    ELSE [g EXCEPT !.screenWidth = dims.width]

updateLayoutIgnoringProp(g, numColumns, dims) ==
    [g EXCEPT !.screenWidth = dims.width,
              !.columns = getGridColumnsAt(<<dims.width>>, dims)]

\* updateLayout of the effect whose closure holds numColumns, reading dims
\* from Dimensions.get('window')
updateLayout(g, numColumns, dims) ==
    LET width == dims.width
    IN  IF ~Truthy(numColumns)
        THEN [g EXCEPT !.screenWidth = width,
                       !.columns = getGridColumnsAt(<<width>>, dims)]
        ELSE [g EXCEPT !.screenWidth = width]

\* the listener of the grid: updateLayout, whose state updates React drops
\* once the component is unmounted
GridChangeHandler(st, l, dims) ==
    IF st.grid.mounted
    THEN [st EXCEPT !.grid = updateLayout(@, l.numColumns, dims),
                    !.calls.grid = @ + 1]
    ELSE [st EXCEPT !.calls.stale = @ + 1]

\* the event emitter: every registered listener, in registration order
RECURSIVE Emit(_, _, _)
Emit(ls, st, dims) ==
    IF ls = << >> THEN st
    ELSE LET l == Head(ls)
             next == IF l.owner = "dash" THEN OrientationChangeHandler(st)
                     ELSE GridChangeHandler(st, l, dims)
         IN  Emit(Tail(ls), next, dims)

(***************************************************************************)
(* Initial state: the modules have been evaluated under the initial        *)
(* window, nothing is mounted.                                             *)
(***************************************************************************)
ModulesLoaded(dims) ==
    /\ spacing = spacingAt(dims, pixelRatio)
    /\ typography = typographyAt(dims, pixelRatio, platformOS)
    /\ gridStyles = [paddingHorizontal |-> getAdaptivePaddingAt(dims, pixelRatio)]
    /\ headerStyles =
           [paddingHorizontal |-> getAdaptivePaddingAt(dims, pixelRatio),
            tabletPaddingTop |-> hpAt(StrArg(<<"4", "%">>), dims, pixelRatio),
            avatarSize |-> IF isTabletAt(Null, dims) THEN 44 ELSE 40]
    /\ importWindow = dims

\* no render of the grid is in progress
NoRender ==
    [pc |-> "idle", data |-> << >>, columns |-> 0, i |-> 0, row |-> << >>,
     groupedData |-> << >>]

\* the statistics of the initial dashboardData
InitialStatistics ==
    <<[id |-> 1, title |-> "Total Sales", value |-> "$24.5K", trend |-> "up"],
      [id |-> 2, title |-> "New Users", value |-> "1,234", trend |-> "up"],
      [id |-> 3, title |-> "Orders", value |-> "456", trend |-> "down"],
      [id |-> 4, title |-> "Revenue", value |-> "$12.3K", trend |-> "up"]>>

\* the refresh state of DashboardScreen's first render; timers holds the
\* pending setTimeout callbacks, oldest first, named by the number of the
\* handleRefresh call that set them (fired: those that have run)
FirstRender ==
    [refreshing |-> FALSE, statistics |-> InitialStatistics, timers |-> << >>,
     started |-> 0, fired |-> {}]

NoQuery ==
    [done |-> FALSE, deviceType |-> "", gridColumns |-> 0, isTablet |-> FALSE,
     branch |-> "", adaptivePadding |-> NaN, fontDone |-> FALSE,
     size |-> Whole(0), rf |-> 0, percentDone |-> FALSE, percent |-> 0,
     wp |-> NaN, hp |-> NaN]

Init ==
    /\ platformOS \in {"ios", "android"}
    /\ pixelRatio \in PixelRatios
    /\ window \in Viewports
    /\ pending = << >>
    /\ listeners = << >>
    /\ calls = NoCalls
    /\ ModulesLoaded(window)
    /\ dash = DashUnmounted
    /\ grid = GridUnmounted
    /\ arg = Null
    /\ result = NoQuery
    /\ render = NoRender
    /\ refresh = FirstRender

platformVars == <<platformOS, pixelRatio>>

moduleVars == <<spacing, typography, gridStyles, headerStyles, importWindow>>

queryVars == <<arg, result, render, refresh>>

(***************************************************************************)
(* The platform: a rotation, resize or split-screen change is queued, then *)
(* delivered: Dimensions is updated and 'change' is emitted.               *)
(***************************************************************************)
LastKnown == IF pending = << >> THEN window ELSE pending[Len(pending)]

NativeChange ==
    /\ Len(pending) < MaxPending
    /\ \E d \in Viewports :
          /\ d # LastKnown
          /\ pending' = Append(pending, d)
    /\ UNCHANGED <<platformVars, window, listeners, calls, moduleVars, dash,
                   grid, queryVars>>

DeliverAndReloadModules ==
    /\ pending # << >>
    /\ window' = Head(pending)
    /\ pending' = Tail(pending)
    /\ LET st == Emit(listeners,
                      [dash |-> dash, grid |-> grid, calls |-> NoCalls],
                      Head(pending))
       IN  /\ dash' = st.dash
           /\ grid' = st.grid
           /\ calls' = st.calls
    /\ spacing' = spacingAt(window', pixelRatio)
    /\ typography' = typographyAt(window', pixelRatio, platformOS)
    /\ UNCHANGED <<platformVars, listeners, gridStyles, headerStyles,
                   importWindow, queryVars>>

DeliverChange ==
    /\ pending # << >>
    /\ window' = Head(pending)
    /\ pending' = Tail(pending)
    /\ LET st == Emit(listeners,
                      [dash |-> dash, grid |-> grid, calls |-> NoCalls],
                      Head(pending))
       IN  /\ dash' = st.dash
           /\ grid' = st.grid
           /\ calls' = st.calls
    /\ UNCHANGED <<platformVars, listeners, moduleVars, queryVars>>

(***************************************************************************)
(* DashboardScreen lifecycle.                                              *)
(***************************************************************************)
DashMount ==
    /\ ~dash.mounted
    /\ dash' = [DashUnmounted EXCEPT !.mounted = TRUE]
    /\ UNCHANGED <<platformVars, window, pending, listeners, calls, moduleVars,
                   grid, queryVars>>

\* useEffect(..., []): subscribe, then ask the native module for the
\* orientation
DashEffect ==
    /\ dash.mounted
    /\ ~dash.effectRun
    /\ LET l == [owner |-> "dash", numColumns |-> Null]
       IN  /\ listeners' = AddEventListener(listeners, l)
           /\ dash' = [dash EXCEPT !.sub = <<l>>, !.effectRun = TRUE,
                                   !.orientationQuery = TRUE]
    /\ UNCHANGED <<platformVars, window, pending, calls, moduleVars, grid,
                   queryVars>>

\* the callback of Orientation.getOrientation
DashOrientationResult ==
    /\ dash.mounted
    /\ dash.orientationQuery
    /\ dash' = [dash EXCEPT !.orientation = DeviceOrientation(window),
                            !.orientationQuery = FALSE, !.oriented = TRUE]
    /\ UNCHANGED <<platformVars, window, pending, listeners, calls, moduleVars,
                   grid, queryVars>>

\* unmount: the effect's cleanup releases the subscription
DashUnmount ==
    /\ dash.mounted
    /\ listeners' = RemoveSubscription(listeners, dash.sub)
    /\ dash' = DashUnmounted
    /\ UNCHANGED <<platformVars, window, pending, calls, moduleVars, grid,
                   queryVars>>

(***************************************************************************)
(* ResponsiveGrid lifecycle.                                               *)
(***************************************************************************)
\* first render: the useState initialisers
GridMount ==
    /\ ~grid.mounted
    /\ \E nc \in NumColumnsProps :
          grid' = [mounted |-> TRUE, numColumns |-> nc,
                   columns |-> OrElse(nc, getGridColumns(Null)),
                   screenWidth |-> window.width, sub |-> Null,
                   effectPending |-> TRUE]
    /\ UNCHANGED <<platformVars, window, pending, listeners, calls, moduleVars,
                   dash, queryVars>>

\* a re-render with another numColumns prop; React has flushed the effects
\* of the previous render before it renders again
GridSetNumColumns ==
    /\ grid.mounted
    /\ ~grid.effectPending
    /\ \E nc \in NumColumnsProps :
          /\ nc # grid.numColumns
          /\ grid' = [grid EXCEPT !.numColumns = nc, !.effectPending = TRUE]
    /\ UNCHANGED <<platformVars, window, pending, listeners, calls, moduleVars,
                   dash, queryVars>>

GridEffectsWithoutCleanup ==
    /\ grid.mounted
    /\ grid.effectPending
    /\ LET l == [owner |-> "grid", numColumns |-> grid.numColumns]
           laidOut == updateLayout(grid, grid.numColumns, window)
           fixed == IF Truthy(grid.numColumns)
                    THEN [laidOut EXCEPT !.columns = grid.numColumns[1]]
                    ELSE laidOut
       IN  /\ listeners' = AddEventListener(listeners, l)
           /\ grid' = [fixed EXCEPT !.sub = <<l>>, !.effectPending = FALSE]
    /\ UNCHANGED <<platformVars, window, pending, calls, moduleVars, dash,
                   queryVars>>

\* the effects of a render whose numColumns differs from the last one's (or
\* of the first render): the cleanup of the previous layout effect, the
\* layout effect (updateLayout, subscribe), then the numColumns effect
GridEffects ==
    /\ grid.mounted
    /\ grid.effectPending
    /\ LET l == [owner |-> "grid", numColumns |-> grid.numColumns]
           cleaned == RemoveSubscription(listeners, grid.sub)
           laidOut == updateLayout(grid, grid.numColumns, window)
           fixed == IF Truthy(grid.numColumns)
                    THEN [laidOut EXCEPT !.columns = grid.numColumns[1]]
                    ELSE laidOut
       IN  /\ listeners' = AddEventListener(cleaned, l)
           /\ grid' = [fixed EXCEPT !.sub = <<l>>, !.effectPending = FALSE]
    /\ UNCHANGED <<platformVars, window, pending, calls, moduleVars, dash,
                   queryVars>>

GridUnmountLeaking ==
    /\ grid.mounted
    /\ grid' = GridUnmounted
    /\ UNCHANGED <<platformVars, window, pending, listeners, calls, moduleVars,
                   dash, queryVars>>

\* unmount: the layout effect's cleanup releases the subscription
GridUnmount ==
    /\ grid.mounted
    /\ listeners' = RemoveSubscription(listeners, grid.sub)
    /\ grid' = GridUnmounted
    /\ UNCHANGED <<platformVars, window, pending, calls, moduleVars, dash,
                   queryVars>>

Next ==
    \/ NativeChange
    \/ DeliverChange
    \/ DashMount
    \/ DashEffect
    \/ DashOrientationResult
    \/ DashUnmount
    \/ GridMount
    \/ GridSetNumColumns
    \/ GridEffects
    \/ GridUnmount

Spec == Init /\ [][Next]_vars

(***************************************************************************)
(* Direct queries of the pure functions, on windows drawn from QueryDims.  *)
(***************************************************************************)
QueryInit ==
    /\ platformOS \in {"ios", "android"}
    /\ pixelRatio \in PixelRatios
    /\ window \in [width : QueryDims, height : QueryDims]
                 \cup {LogicalWindow(Pixel4Screen, Pixel4PixelRatio)}
    /\ pending = << >>
    /\ listeners = << >>
    /\ calls = NoCalls
    /\ ModulesLoaded(window)
    /\ dash = DashUnmounted
    /\ grid = GridUnmounted
    /\ arg = Null
    /\ result = NoQuery
    /\ render = NoRender
    /\ refresh = FirstRender

\* getDeviceType(a), getGridColumns(a), isTablet(a) and getAdaptivePadding()
\* on the current window
Query ==
    /\ \E a \in Overrides :
          /\ arg' = a
          /\ result' = [NoQuery EXCEPT
                           !.done = TRUE,
                           !.deviceType = getDeviceType(a),
                           !.gridColumns = getGridColumns(a),
                           !.isTablet = isTablet(a),
                           !.branch = SwitchBranch(
                                         getDeviceType(<<OrElse(a, window.width)>>)),
                           !.adaptivePadding = getAdaptivePadding]
    /\ UNCHANGED <<platformVars, window, pending, listeners, calls, moduleVars,
                   dash, grid, render, refresh>>

\* rf(size) on the current window
QueryFont ==
    /\ \E size \in BaseSizes :
          /\ arg' = Null
          /\ result' = [NoQuery EXCEPT !.fontDone = TRUE, !.size = size,
                                       !.rf = rf(size)]
    /\ UNCHANGED <<platformVars, window, pending, listeners, calls, moduleVars,
                   dash, grid, render, refresh>>

\* wp(p) and hp(p) on the current window
QueryPercent ==
    /\ \E p \in Percents :
          /\ arg' = Null
          /\ result' = [NoQuery EXCEPT !.percentDone = TRUE, !.percent = p,
                                       !.wp = wp(NumArg(p)), !.hp = hp(NumArg(p))]
    /\ UNCHANGED <<platformVars, window, pending, listeners, calls, moduleVars,
                   dash, grid, render, refresh>>

\* the device is rotated: Dimensions reports the window with width and
\* height exchanged, and the earlier answers are dropped
QueryRotate ==
    /\ window.width # window.height
    /\ window' = [width |-> window.height, height |-> window.width]
    /\ arg' = Null
    /\ result' = NoQuery
    /\ UNCHANGED <<platformVars, pending, listeners, calls, moduleVars, dash,
                   grid, render, refresh>>

QueryNext == Query \/ QueryFont \/ QueryPercent \/ QueryRotate

QuerySpec == QueryInit /\ [][QueryNext]_vars

(***************************************************************************)
(* The render of ResponsiveGrid: the grouping of data into rows            *)
(* (ResponsiveGrid.js 94-102), one step per loop test.                     *)
(***************************************************************************)
\* the data lists given to the grid: items 1..n, none of them null
DataLists == {[k \in 1..n |-> k] : n \in 0..MaxDataLen}

\* the null pushed into a short row
NullItem == 0

Max(a, b) == IF a > b THEN a ELSE b

SliceToEnd(arr, start, end) ==
    LET len == Len(arr)
        k == IF start < 0 THEN Max(len + start, 0) ELSE Min(start, len)
    IN  SubSeq(arr, k + 1, len)

\* Array.prototype.slice(start, end) on integer arguments: a negative index
\* counts from the end, both are clamped to 0..length
Slice(arr, start, end) ==
    LET len == Len(arr)
        k == IF start < 0 THEN Max(len + start, 0) ELSE Min(start, len)
        final == IF end < 0 THEN Max(len + end, 0) ELSE Min(end, len)
    IN  SubSeq(arr, k + 1, final)

\* Every index at or below -length slices alike, and rows are only ever
\* appended: the index is kept from LowestIndex on and the rows up to
\* MaxRows, so that a loop that never ends is a cycle of finitely many states.
LowestIndex == 0 - (MaxDataLen + 1)

MaxRows == MaxDataLen + 2

\* the component function runs with the current columns state and a data prop
RenderStart ==
    /\ grid.mounted
    /\ render.pc \in {"idle", "done"}
    /\ \E data \in DataLists :
          render' = [pc |-> "for", data |-> data, columns |-> grid.columns,
                     i |-> 0, row |-> << >>, groupedData |-> << >>]
    /\ UNCHANGED <<platformVars, window, pending, listeners, calls, moduleVars,
                   dash, grid, arg, result, refresh>>

\* for (...; i < data.length; ...) { const row = data.slice(i, i + columns);
RenderFor ==
    /\ render.pc = "for"
    /\ render' =
           IF render.i < Len(render.data)
           THEN [render EXCEPT
                    !.row = Slice(render.data, render.i, render.i + render.columns),
                    !.pc = "while"]
           ELSE [render EXCEPT !.pc = "done"]
    /\ UNCHANGED <<platformVars, window, pending, listeners, calls, moduleVars,
                   dash, grid, arg, result, refresh>>

\* while (row.length < columns) row.push(null); then groupedData.push(row)
\* and i += columns
RenderWhile ==
    /\ render.pc = "while"
    /\ render' =
           IF Len(render.row) < render.columns
           THEN [render EXCEPT !.row = Append(@, NullItem)]
           ELSE [render EXCEPT
                    !.groupedData = IF Len(@) < MaxRows
                                    THEN Append(@, render.row) ELSE @,
                    !.i = Max(@ + render.columns, LowestIndex),
                    !.row = << >>,
                    !.pc = "for"]
    /\ UNCHANGED <<platformVars, window, pending, listeners, calls, moduleVars,
                   dash, grid, arg, result, refresh>>

RenderNext ==
    \/ GridMount
    \/ GridSetNumColumns
    \/ GridEffects
    \/ RenderStart
    \/ RenderFor
    \/ RenderWhile

\* a render that has started runs on: JavaScript runs the loops to the end
RenderSpec ==
    Init /\ [][RenderNext]_vars /\ WF_vars(RenderFor) /\ WF_vars(RenderWhile)

(***************************************************************************)
(* The pull-to-refresh of DashboardScreen (src/unnamed/part_001 100-114).  *)
(***************************************************************************)
RefreshedStatisticsAll(statistics) ==
    [k \in 1..Len(statistics) |-> [statistics[k] EXCEPT !.value = "$25.2K"]]

\* prev.statistics.map(stat => ({...stat, value: stat.id === 1 ? '$25.2K'
\* : stat.value}))
RefreshedStatistics(statistics) ==
    [k \in 1..Len(statistics) |->
        [statistics[k] EXCEPT
            !.value = IF statistics[k].id = 1 THEN "$25.2K" ELSE @]]

\* handleRefresh: setRefreshing(true), setTimeout(..., 2000)
HandleRefresh ==
    /\ dash.mounted
    /\ refresh.started < MaxRefreshes
    /\ refresh' = [refresh EXCEPT !.refreshing = TRUE,
                                  !.started = @ + 1,
                                  !.timers = Append(@, refresh.started + 1)]
    /\ UNCHANGED <<platformVars, window, pending, listeners, calls, moduleVars,
                   dash, grid, arg, result, render>>

\* the callback of the oldest timer (equal delays: the timers fire in the
\* order they were set): setDashboardData(...), setRefreshing(false)
RefreshTimerFires ==
    /\ refresh.timers # << >>
    /\ refresh' = [refresh EXCEPT
                      !.statistics = RefreshedStatistics(@),
                      !.refreshing = FALSE,
                      !.timers = Tail(@),
                      !.fired = @ \cup {Head(refresh.timers)}]
    /\ UNCHANGED <<platformVars, window, pending, listeners, calls, moduleVars,
                   dash, grid, arg, result, render>>

RefreshNext ==
    \/ DashMount
    \/ DashEffect
    \/ DashOrientationResult
    \/ HandleRefresh
    \/ RefreshTimerFires

\* a timer that has been set fires
RefreshSpec == Init /\ [][RefreshNext]_vars /\ WF_vars(RefreshTimerFires)

(***************************************************************************)
(* Properties.                                                             *)
(***************************************************************************)
\* a query without a width override has been answered for the current window
Answered == result.done /\ arg = Null

ColumnTable(deviceType, orientation) ==
    CASE deviceType = "tablet" -> IF orientation = "landscape" THEN 4 ELSE 2
      [] deviceType = "largeTablet" -> IF orientation = "landscape" THEN 5 ELSE 3
      [] OTHER -> IF orientation = "landscape" THEN 2 ELSE 1

\* C3: getGridColumns returns the table entry of the window's device class
\* and orientation, the orientation being landscape exactly when the width
\* exceeds the height
C3_ColumnsFromTable ==
    Answered =>
        /\ result.deviceType \in
               {"smallPhone", "mediumPhone", "largePhone", "tablet", "largeTablet"}
        /\ result.gridColumns =
               ColumnTable(result.deviceType,
                           IF window.width > window.height
                           THEN "landscape" ELSE "portrait")

C3_Witness ==
    /\ Answered
    /\ window.width = window.height
    /\ result.deviceType = "tablet"
    /\ result.gridColumns = 2

\* a step that delivers a queued change event to the listeners
Delivering == Len(pending') < Len(pending)

GridListeners == {listeners[i] : i \in {j \in 1..Len(listeners) : listeners[j].owner = "grid"}}

\* C4: the orientation state of a mounted DashboardScreen that has received
\* its initial orientation is 'landscape' exactly when the current window is
\* wider than high
C4_OrientationFollowsWindow ==
    (dash.mounted /\ dash.oriented) =>
        (dash.orientation = "landscape" <=> window.width > window.height)

\* C5: a change notification handled by the listener of a mounted
\* ResponsiveGrid whose closure holds no fixed numColumns leaves screenWidth
\* equal to the new window's width and columns equal to getGridColumns of
\* the new window
C5_GridReadsNewWindow ==
    [][(Delivering /\ grid.mounted) =>
          \A l \in GridListeners :
              ~Truthy(l.numColumns) =>
                  /\ grid'.screenWidth = window'.width
                  /\ grid'.columns = getGridColumnsAt(Null, window')]_vars

C5_Witness ==
    /\ grid.mounted
    /\ ~grid.effectPending
    /\ ~Truthy(grid.numColumns)
    /\ calls.grid = 1
    /\ window.width # importWindow.width
    /\ grid.screenWidth = window.width
    /\ grid.columns = 5

\* C6: each delivered change event invokes the callback registered through
\* listenForOrientationChange exactly once while the subscription is
\* registered, and not at all otherwise
C6_CallbackOncePerEvent ==
    [][Delivering =>
          calls'.dash = IF Registered("dash") THEN 1 ELSE 0]_vars

C6_Witness ==
    /\ dash.mounted
    /\ Registered("dash")
    /\ calls.dash = 1
    /\ pending = << >>

\* C7: every registered listener is the current subscription of a mounted
\* component, and no delivery ran the callback of an unmounted component
C7_NoListenerOfUnmounted ==
    /\ \A i \in 1..Len(listeners) :
          /\ listeners[i].owner = "dash" =>
                 dash.mounted /\ dash.sub = <<listeners[i]>>
          /\ listeners[i].owner = "grid" =>
                 grid.mounted /\ grid.sub = <<listeners[i]>>
    /\ calls.stale = 0

\* both components handled a change event through their listeners and were
\* then unmounted: the registry is empty
C7_Witness ==
    /\ ~grid.mounted
    /\ ~dash.mounted
    /\ calls.grid = 1
    /\ calls.dash = 1
    /\ listeners = << >>

\* C8: a delivery either runs a listener's whole callback (for the grid:
\* screenWidth and, without a fixed numColumns, columns, both from the new
\* window; for the screen: the orientation update) or, when the listener
\* was released before the delivery, leaves the component untouched
C8_DeliveryAllOrNothing ==
    [][Delivering =>
          /\ IF grid.mounted /\ Registered("grid")
             THEN \A l \in GridListeners :
                     grid' = [grid EXCEPT
                                 !.screenWidth = window'.width,
                                 !.columns = IF Truthy(l.numColumns) THEN @
                                             ELSE getGridColumnsAt(Null, window')]
             ELSE grid' = grid /\ calls'.grid = 0
          /\ IF dash.mounted /\ Registered("dash")
             THEN dash'.orientation # dash.orientation
             ELSE dash' = dash /\ calls'.dash = 0
          /\ calls'.stale = 0]_vars

\* the grid handled one event and was unmounted while the next was queued
C8_Witness ==
    /\ ~grid.mounted
    /\ calls.grid = 1
    /\ pending # << >>
    /\ ~Registered("grid")

\* strict equality of two numbers: NaN equals nothing
StrictEq(a, b) == ~a.nan /\ ~b.nan /\ a.v = b.v

\* the values the modules computed at import are the ones in use
ModuleValuesOfImport ==
    /\ spacing = spacingAt(importWindow, pixelRatio)
    /\ typography = typographyAt(importWindow, pixelRatio, platformOS)
    /\ gridStyles.paddingHorizontal = getAdaptivePaddingAt(importWindow, pixelRatio)
    /\ headerStyles.paddingHorizontal = getAdaptivePaddingAt(importWindow, pixelRatio)
    /\ headerStyles.avatarSize = IF isTabletAt(Null, importWindow) THEN 44 ELSE 40

\* C10 as stated: the import-time values never change, and once the width
\* differs from the width at import they differ from wp / rf /
\* getAdaptivePadding evaluated on the current window
C10_StaleAfterWidthChange ==
    /\ ModuleValuesOfImport
    /\ window.width # importWindow.width =>
          /\ \E k \in DOMAIN spacing :
                ~StrictEq(spacing[k], spacingAt(window, pixelRatio)[k])
          /\ typography # typographyAt(window, pixelRatio, platformOS)
          /\ ~StrictEq(gridStyles.paddingHorizontal, getAdaptivePadding)
          /\ ~StrictEq(headerStyles.paddingHorizontal, getAdaptivePadding)

\* C10, amended: the spacing and typography tables and the import-time
\* style values always hold what wp / rf / getAdaptivePadding / isTablet
\* gave for the window at import, whatever the window has become
C10_FrozenAtImport == ModuleValuesOfImport

C10_Witness ==
    /\ window.width # importWindow.width
    /\ typography = typographyAt(importWindow, pixelRatio, platformOS)
    /\ typography # typographyAt(window, pixelRatio, platformOS)
    /\ headerStyles.avatarSize # IF isTablet(Null) THEN 44 ELSE 40
    /\ calls.dash = 1

(***************************************************************************)
(* Properties of the classifier, the column count, the padding and the     *)
(* font scale on arbitrary windows (QuerySpec).                            *)
(***************************************************************************)
DeviceClasses == {"smallPhone", "mediumPhone", "largePhone", "tablet", "largeTablet"}

\* position of a device class in smallPhone -> ... -> largeTablet
ClassRank(deviceType) ==
    CASE deviceType = "smallPhone" -> 1
      [] deviceType = "mediumPhone" -> 2
      [] deviceType = "largePhone" -> 3
      [] deviceType = "tablet" -> 4
      [] OTHER -> 5

QueriedWindows == [width : QueryDims, height : QueryDims]

\* C11: against the answer for any other window, getGridColumns of the
\* current window is no larger when the other window has the same class and
\* is landscape while this one is portrait, and no larger when the other
\* window has the same orientation and a class at or after this one's in
\* smallPhone -> mediumPhone -> largePhone -> tablet -> largeTablet
C11_ColumnsMonotone ==
    Answered =>
        \A other \in QueriedWindows :
            LET otherType == getDeviceTypeAt(Null, other)
                otherColumns == getGridColumnsAt(Null, other)
                landscape == window.width > window.height
                otherLandscape == other.width > other.height
            IN  /\ (otherType = result.deviceType /\ ~landscape /\ otherLandscape)
                       => otherColumns >= result.gridColumns
                /\ (otherLandscape = landscape
                    /\ ClassRank(otherType) >= ClassRank(result.deviceType))
                       => otherColumns >= result.gridColumns

C11_Witness ==
    /\ Answered
    /\ result.deviceType = "tablet"
    /\ window.width > window.height
    /\ result.gridColumns = 4
    /\ getGridColumnsAt(Null, [width |-> window.height, height |-> window.width]) = 2

PaddingPercent(deviceType) ==
    CASE deviceType \in {"smallPhone", "mediumPhone"} -> 4
      [] deviceType = "largePhone" -> 6
      [] deviceType = "tablet" -> 8
      [] OTHER -> 10

\* C15: getAdaptivePadding returns a number, the rounded percentage of the
\* current width that belongs to the window's device class
C15_PaddingIsPercentOfWidth ==
    Answered =>
        /\ ~result.adaptivePadding.nan
        /\ result.adaptivePadding.v =
               MathRound(PaddingPercent(result.deviceType) * window.width, 100)

\* the platform offset subtracted from the rounded size
FontOffset == IF platformOS = "ios" THEN 0 ELSE 2

C17_SingleRounding ==
    result.fontDone =>
        result.rf + FontOffset =
            MathRound(result.size.n * window.width, result.size.d * 640)

\* C17, amended: rf(baseSize) is baseSize * width / 640 rounded to the nearest
\* multiple of 1 / pixelRatio and then to the nearest integer, minus 2 off
\* iOS, without a lower bound; it is round(baseSize * width / 640) when the
\* pixel ratio is 1 and within 1 of it otherwise
C17_RoundedPixelThenInteger ==
    result.fontDone =>
        LET exact == MathRound(result.size.n * window.width, result.size.d * 640)
            devicePixels ==
                MathRound(result.size.n * window.width * pixelRatio,
                          result.size.d * 640)
            unshifted == result.rf + FontOffset
        IN  /\ unshifted = MathRound(devicePixels, pixelRatio)
            /\ pixelRatio = 1 => unshifted = exact
            /\ unshifted - exact \in {0, 1}

C17_Witness ==
    /\ result.fontDone
    /\ pixelRatio = 2
    /\ platformOS = "android"
    /\ window.width = 400
    /\ result.size = Whole(2)
    /\ result.rf = 0

Malformed == window.width <= 0 \/ window.height <= 0

\* C18: on a window with a zero or negative width or height, getGridColumns
\* returns at least 1 and getAdaptivePadding does not return 0
C18_MalformedNeverZero ==
    (result.done /\ Malformed) =>
        /\ result.gridColumns >= 1
        /\ ~StrictEq(result.adaptivePadding, Num(0))

C18_Witness ==
    /\ Answered
    /\ window.width = 0
    /\ window.height = -1
    /\ result.gridColumns = 2
    /\ result.adaptivePadding.nan

\* C19: for every window and width override getDeviceType returns one of
\* the five classes, and the switch of getGridColumns does not take its
\* default branch
C19_ClassifierExhaustive ==
    result.done =>
        /\ result.deviceType \in DeviceClasses
        /\ result.branch # "default"

C19_Witness ==
    /\ result.done
    /\ arg = <<640>>
    /\ window.width = -1
    /\ window.height = 2280
    /\ result.deviceType = "largePhone"
    /\ result.branch = "phone"

(***************************************************************************)
(* Properties of the mounted grid (Spec).                                  *)
(***************************************************************************)
\* C20: the columns state of a mounted ResponsiveGrid is an integer that is
\* at least 1
C20_ColumnsAtLeastOne ==
    grid.mounted => (grid.columns \in Int /\ grid.columns >= 1)

(***************************************************************************)
(* Further properties of the direct queries (QuerySpec).                   *)
(***************************************************************************)
\* a step that calls getDeviceType / getGridColumns
Querying == result'.done /\ result' # result

C22_PercentSingleRounding ==
    result.percentDone =>
        /\ StrictEq(result.wp, Num(MathRound(result.percent * window.width, 100)))
        /\ StrictEq(result.hp, Num(MathRound(result.percent * window.height, 100)))

\* C22, amended: wp(p) and hp(p) are p / 100 of the width and of the height,
\* rounded to the nearest multiple of 1 / pixelRatio and then to the nearest
\* integer: round(p / 100 * dimension) at pixel ratio 1 and at most one more
\* otherwise; wp does not depend on the height nor hp on the width,
\* wp(100) = width, hp(100) = height, and on non-negative dimensions both
\* are non-decreasing in p
C22_PercentRoundedPixelThenInteger ==
    result.percentDone =>
        LET p == result.percent
            Twice(dimension) ==
                MathRound(MathRound(p * dimension * pixelRatio, 100), pixelRatio)
            Exact(dimension) == MathRound(p * dimension, 100)
        IN  /\ StrictEq(result.wp, Num(Twice(window.width)))
            /\ StrictEq(result.hp, Num(Twice(window.height)))
            /\ pixelRatio = 1 =>
                   /\ result.wp.v = Exact(window.width)
                   /\ result.hp.v = Exact(window.height)
            /\ result.wp.v - Exact(window.width) \in {0, 1}
            /\ result.hp.v - Exact(window.height) \in {0, 1}
            /\ \A other \in QueryDims :
                   /\ result.wp = wpAt(NumArg(p), [window EXCEPT !.height = other],
                                       pixelRatio)
                   /\ result.hp = hpAt(NumArg(p), [window EXCEPT !.width = other],
                                       pixelRatio)
            /\ p = 100 => (result.wp.v = window.width /\ result.hp.v = window.height)
            /\ \A q \in Percents :
                   q >= p =>
                       /\ window.width >= 0 =>
                              wpAt(NumArg(q), window, pixelRatio).v >= result.wp.v
                       /\ window.height >= 0 =>
                              hpAt(NumArg(q), window, pixelRatio).v >= result.hp.v

C22_Witness ==
    /\ result.percentDone
    /\ pixelRatio = 2
    /\ result.percent = 25
    /\ window = [width |-> 361, height |-> 800]
    /\ result.wp = Num(91)
    /\ result.hp = Num(200)

\* the device type the documentation assigns to a width
DocumentedType(width) ==
    IF width < 360 THEN "smallPhone"
    ELSE IF width < 400 THEN "mediumPhone"
    ELSE IF width < 500 THEN "largePhone"
    ELSE IF width < 768 THEN "tablet"
    ELSE "largeTablet"

C29_OverrideReplacesWidth ==
    result.done =>
        LET absent == arg = Null \/ arg = <<0>>
            used == IF absent THEN window
                    ELSE [width |-> arg[1], height |-> window.height]
        IN  /\ result.deviceType = getDeviceTypeAt(Null, used)
            /\ result.gridColumns = getGridColumnsAt(Null, used)
            /\ result.gridColumns =
                   ColumnTable(result.deviceType,
                               IF used.width > used.height
                               THEN "landscape" ELSE "portrait")
            /\ arg = <<window.width>> =>
                   /\ result.deviceType = getDeviceTypeAt(Null, window)
                   /\ result.gridColumns = getGridColumnsAt(Null, window)

C29_Witness ==
    /\ result.done
    /\ arg = <<0>>
    /\ window = [width |-> 1024, height |-> 800]
    /\ result.deviceType = "largeTablet"
    /\ result.gridColumns = 5

(***************************************************************************)
(* Further properties of the mounted grid (Spec).                          *)
(***************************************************************************)
\* C25: once the effects of the last render have run, columns is the
\* numColumns prop when that is truthy and getGridColumns of the current
\* window otherwise; a delivered viewport change leaves columns as it is
\* while a truthy numColumns is in effect
C25_ColumnsAfterEffects ==
    /\ [](grid.mounted /\ ~grid.effectPending =>
              grid.columns = IF Truthy(grid.numColumns) THEN grid.numColumns[1]
                             ELSE getGridColumnsAt(Null, window))
    /\ [][(Delivering /\ grid.mounted /\ ~grid.effectPending
           /\ Truthy(grid.numColumns)) =>
              (grid'.columns = grid.columns /\ grid'.screenWidth = window'.width)]_vars

C25_Witness ==
    /\ grid.mounted
    /\ ~grid.effectPending
    /\ grid.numColumns = <<2>>
    /\ window # importWindow
    /\ calls.grid = 1
    /\ grid.screenWidth = window.width
    /\ grid.columns = 2
    /\ getGridColumnsAt(Null, window) = 5

\* the number of registered listeners of the grid
GridListenerCount ==
    Cardinality({i \in 1..Len(listeners) : listeners[i].owner = "grid"})

\* C26 as stated: a mounted ResponsiveGrid holds exactly one registered
\* listener at any time
C26_ExactlyOneListener == grid.mounted => GridListenerCount = 1

\* C26, amended: a rendered ResponsiveGrid holds no listener until its
\* effects have run for the first time and exactly one from then on, the
\* one its subscription names; an unmounted one holds none; a step that
\* replaces or drops the subscription removes a listener that was registered
C26_OneListenerOnceEffectsRan ==
    /\ [](/\ grid.mounted =>
                GridListenerCount = IF grid.sub = Null THEN 0 ELSE 1
          /\ (grid.mounted /\ ~grid.effectPending) =>
                (GridListenerCount = 1 /\ grid.sub # Null)
          /\ (grid.mounted /\ grid.sub # Null) =>
                \E i \in 1..Len(listeners) : listeners[i] = grid.sub[1]
          /\ ~grid.mounted => GridListenerCount = 0)
    /\ [][(grid.sub # Null /\ grid'.sub # grid.sub) =>
              /\ \E i \in 1..Len(listeners) : listeners[i] = grid.sub[1]
              /\ \A i \in 1..Len(listeners') : listeners'[i] # grid.sub[1]
              /\ Len(listeners') <= Len(listeners)]_vars

C26_Witness ==
    /\ grid.mounted
    /\ ~grid.effectPending
    /\ dash.mounted
    /\ Len(listeners) = 2
    /\ listeners[1].owner = "dash"
    /\ listeners[2] = [owner |-> "grid", numColumns |-> <<-1>>]
    /\ grid.sub = <<listeners[2]>>

(***************************************************************************)
(* Properties of the row grouping (RenderSpec).                            *)
(***************************************************************************)
RECURSIVE Flatten(_)
Flatten(rows) == IF rows = << >> THEN << >> ELSE Head(rows) \o Flatten(Tail(rows))

Ceiling(n, d) == (n + d - 1) \div d

\* C27: when the grouping has finished for columns >= 1 there are
\* ceil(len(data) / columns) rows of columns entries each, the rows read in
\* order are data followed by nulls only, fewer than columns of them, and an
\* empty data list gives no rows
C27_RowsOfColumns ==
    (render.pc = "done" /\ render.columns >= 1) =>
        LET rows == render.groupedData
            n == Len(render.data)
            flat == Flatten(rows)
        IN  /\ Len(rows) = Ceiling(n, render.columns)
            /\ \A r \in 1..Len(rows) : Len(rows[r]) = render.columns
            /\ SelectSeq(flat, LAMBDA x : x # NullItem) = render.data
            /\ SubSeq(flat, 1, n) = render.data
            /\ \A k \in (n + 1)..Len(flat) : flat[k] = NullItem
            /\ Len(flat) - n < render.columns
            /\ n = 0 => rows = << >>

C27_Witness ==
    /\ render.pc = "done"
    /\ render.columns = 2
    /\ render.data = <<1, 2, 3>>
    /\ render.groupedData = <<<<1, 2>>, <<3, NullItem>>>>

\* C28: a grouping that has started finishes
C28_GroupingTerminates ==
    (render.pc \in {"for", "while"}) ~> (render.pc = "done")

(***************************************************************************)
(* Properties of the pull-to-refresh (RefreshSpec).                        *)
(***************************************************************************)
\* the fields of a statistic that a refresh must leave alone
Untouched(stat) == [id |-> stat.id, title |-> stat.title, trend |-> stat.trend]

\* C30: a handleRefresh call sets refreshing; the timer of every call fires
\* and leaves refreshing false; a timer's update keeps the number, order,
\* ids and other fields of the statistics and the value of every statistic
\* but the one with id 1, also while other refreshes are pending
C30_RefreshCompletes ==
    /\ [][refresh'.started # refresh.started =>
              (refresh'.refreshing /\ refresh'.statistics = refresh.statistics)]_vars
    /\ [][refresh'.fired # refresh.fired =>
              /\ ~refresh'.refreshing
              /\ Len(refresh'.statistics) = Len(refresh.statistics)
              /\ \A k \in 1..Len(refresh.statistics) :
                     /\ Untouched(refresh'.statistics[k])
                            = Untouched(refresh.statistics[k])
                     /\ refresh.statistics[k].id # 1 =>
                            refresh'.statistics[k].value
                                = refresh.statistics[k].value
                     /\ refresh.statistics[k].id = 1 =>
                            refresh'.statistics[k].value = "$25.2K"]_vars
    /\ \A call \in 1..MaxRefreshes :
           (\E k \in 1..Len(refresh.timers) : refresh.timers[k] = call)
               ~> (call \in refresh.fired /\ ~refresh.refreshing)

C30_Witness ==
    /\ refresh.started = 2
    /\ refresh.fired = {1}
    /\ refresh.timers = <<2>>
    /\ ~refresh.refreshing
    /\ refresh.statistics[1].value = "$25.2K"
    /\ refresh.statistics[2].value = "1,234"

====
